---- MODULE Spec2Model ----
(***************************************************************************)
(* Model of UInventory (src/Private/Inventory.cpp, src/Public/Inventory.h) *)
(* the inventory component: a registry of stat names, a catalogue of item  *)
(* types keyed by name, and the guarded mutations of Quantity/IsEquipped.  *)
(***************************************************************************)
EXTENDS Integers, FiniteSets, Sequences, TLC

(* ---------------- InventoryError (Inventory.h:11-25) ------------------- *)
ESuccess == "ESuccess"
EInvalidStatUsed == "EInvalidStatUsed"
EDuplicateItemType == "EDuplicateItemType"
EInvalidItemType == "EInvalidItemType"
EMaxQuantityExceeded == "EMaxQuantityExceeded"
ENoItemsToConsume == "ENoItemsToConsume"
ENotEquippable == "ENotEquippable"
EAlreadyEquipped == "EAlreadyEquipped"
ENotEquipped == "ENotEquipped"
ENotConsumable == "ENotConsumable"
EDuplicateStat == "EDuplicateStat"

InventoryError ==
  { ESuccess, EInvalidStatUsed, EDuplicateItemType, EInvalidItemType,
    EMaxQuantityExceeded, ENoItemsToConsume, ENotEquippable,
    EAlreadyEquipped, ENotEquipped, ENotConsumable, EDuplicateStat }

(* ---------------- bounds of the model ---------------------------------- *)
\* largest MaximumQuantity an item type is registered with
MaxMaxQty == 2
\* largest Quantity argument of AddItem / ConsumeItem
MaxQtyArg == 2
\* calls that would take a Quantity above this are not issued
QtyCap == 3

(* ---------------- input domains ---------------------------------------- *)
StatNames == {"Strength", "Speed"}
ItemNames == {"Potion", "Sword"}
\* Quantity arguments: a negative one, zero and the positive ones
QtyArgs == (-1)..MaxQtyArg
\* MaximumQuantity arguments: a negative one, zero and a positive one
MaxQtyArgs == {-1, 0, MaxMaxQty}

\* the empty TMap
EmptyMap == [k \in {} |-> 0]

\* FBoostAndDuration values used in the registered item types
BoostAndDuration(b, d) == [Boost |-> b, Duration |-> d]

\* StatsBoostsAndDurations argument used for an item type
StatsArg(m, e) ==
  IF m < 0 THEN EmptyMap
  ELSE IF e THEN [s \in StatNames |-> BoostAndDuration(m + 1, -1)]
  ELSE [s \in {"Strength"} |-> BoostAndDuration(1, m)]

\* The argument tuples AddInventoryItemType is called with: every
\* MaximumQuantity in MaxQtyArgs with both values of IsEquippable; the
\* remaining (passive) arguments vary with them.
ItemTypeArgs ==
  { [ FlavorText |-> IF e THEN "Sharp" ELSE "Tasty",
      Thumbnail |-> IF m > 0 THEN "TexA" ELSE "nullptr",
      FullImage |-> IF e THEN "TexB" ELSE "TexA",
      StatsBoostsAndDurations |-> StatsArg(m, e),
      MaximumQuantity |-> m,
      IsConsumable |-> (m = 0) \/ (m > 0 /\ ~e),
      IsEquippable |-> e ] : m \in MaxQtyArgs, e \in BOOLEAN }

(* ---------------- int arithmetic (32-bit signed) ----------------------- *)
INT_MAX == 2147483647
INT_MIN == -2147483647 - 1

\* a + b leaves the range of int
AddOverflows(a, b) ==
  \/ b > 0 /\ a > INT_MAX - b
  \/ b < 0 /\ a < INT_MIN - b

\* a + b reduced modulo 2^32 into the range of int
WrapAdd(a, b) ==
  IF b > 0 /\ a > INT_MAX - b THEN (a + INT_MIN) + (b + INT_MIN)
  ELSE IF b < 0 /\ a < INT_MIN - b THEN (a - INT_MIN) + (b - INT_MIN)
  ELSE a + b

\* a - b leaves the range of int
SubOverflows(a, b) ==
  \/ b < 0 /\ a > INT_MAX + b
  \/ b > 0 /\ a < INT_MIN + b

\* a - b reduced modulo 2^32 into the range of int
WrapSub(a, b) ==
  IF b < 0 /\ a > INT_MAX + b THEN (a + INT_MIN) - (b - INT_MIN)
  ELSE IF b > 0 /\ a < INT_MIN + b THEN (a - INT_MIN) - (b + INT_MIN)
  ELSE a - b

\* Values the test "a + b > m" can take.  Signed overflow is undefined: the
\* test is made either on the wrapped sum or on the sum in a wider register.
SumExceeds(a, b, m) ==
  IF AddOverflows(a, b) THEN {WrapAdd(a, b) > m, b > 0} ELSE {a + b > m}

\* Values the test "a - b <= 0" can take (as SumExceeds).
DiffNotPositive(a, b) ==
  IF SubOverflows(a, b) THEN {WrapSub(a, b) <= 0, b > 0} ELSE {a - b <= 0}

(* ---------------- state ------------------------------------------------ *)
VARIABLES
  PossibleStats,  \* TSet<FString> PossibleStats
  Inventory,      \* TMap<FString, FInventoryItem> Inventory
  call,           \* the call made last: operation and arguments
  ret,            \* the InventoryError that call returned
  EverEquipped    \* history: names whose EquipItem has returned ESuccess

vars == <<PossibleStats, Inventory, call, ret, EverEquipped>>

\* a call of operation o on name n with Quantity argument q; item is the
\* item type described by the arguments of AddInventoryItemType
Call(o, n, q, item) == [op |-> o, name |-> n, Quantity |-> q, item |-> item]
NoItem == EmptyMap

Registered == DOMAIN Inventory

\* the calls are kept within the quantities the model explores: those that
\* would take a Quantity below -1 or above QtyCap are not issued, unless it
\* lands at an end of the range of int
InModelRange(q) == (-1 <= q /\ q <= QtyCap) \/ q <= INT_MIN + 1 \/ q >= INT_MAX - 1

Init ==
  /\ PossibleStats = {}
  /\ Inventory = EmptyMap
  /\ call = Call("", "", 0, NoItem)
  /\ ret = ESuccess
  /\ EverEquipped = {}

(* ---------------- FInventoryItem (Inventory.h:41-87) ------------------- *)
\* a default-constructed FInventoryItem
FInventoryItem ==
  [ Name |-> "", FlavorText |-> "", Thumbnail |-> "nullptr",
    FullImage |-> "nullptr", StatsBoostsAndDurations |-> EmptyMap,
    Quantity |-> 0, MaximumQuantity |-> 0, IsEquippable |-> FALSE,
    IsEquipped |-> FALSE, IsConsumable |-> FALSE ]

\* TMap::Add(Key, Value): inserts, or replaces the value of an existing key
MapAdd(map, key, value) ==
  [k \in DOMAIN map \cup {key} |-> IF k = key THEN value ELSE map[k]]

(* ---------------- operations ------------------------------------------- *)
\* AddPossibleStat without the Contains test
AddPossibleStat_NoContains(PossibleStat) ==
  /\ call' = Call("AddPossibleStat", PossibleStat, 0, NoItem)
  /\ PossibleStats' = PossibleStats \cup {PossibleStat}
  /\ ret' = ESuccess
  /\ UNCHANGED <<Inventory, EverEquipped>>

AddPossibleStat(PossibleStat) ==
  /\ call' = Call("AddPossibleStat", PossibleStat, 0, NoItem)
  /\ IF PossibleStat \in PossibleStats
     THEN /\ ret' = EDuplicateStat
          /\ UNCHANGED PossibleStats
     ELSE /\ PossibleStats' = PossibleStats \cup {PossibleStat}
          /\ ret' = ESuccess
  /\ UNCHANGED <<Inventory, EverEquipped>>

\* AddInventoryItemType that does not copy Name into the item it stores
AddInventoryItemType_NoName(Name, FlavorText, Thumbnail, FullImage, StatsBoostsAndDurations, MaximumQuantity, IsConsumable, IsEquippable) ==
  LET inventoryItemToAdd ==
        [FInventoryItem EXCEPT
           !.FlavorText = FlavorText,
           !.Thumbnail = Thumbnail,
           !.FullImage = FullImage,
           !.StatsBoostsAndDurations = StatsBoostsAndDurations,
           !.MaximumQuantity = MaximumQuantity,
           !.IsConsumable = IsConsumable,
           !.IsEquippable = IsEquippable]
  IN
  /\ call' = Call("AddInventoryItemType", Name, 0, inventoryItemToAdd)
  /\ IF \E k \in DOMAIN StatsBoostsAndDurations : k \notin PossibleStats
     THEN /\ ret' = EInvalidStatUsed
          /\ UNCHANGED Inventory
     ELSE IF Name \in Registered
     THEN /\ ret' = EDuplicateItemType
          /\ UNCHANGED Inventory
     ELSE /\ Inventory' = MapAdd(Inventory, Name, inventoryItemToAdd)
          /\ ret' = ESuccess
  /\ UNCHANGED <<PossibleStats, EverEquipped>>

\* AddInventoryItemType without the loop over the stats
AddInventoryItemType_NoStatTest(Name, FlavorText, Thumbnail, FullImage, StatsBoostsAndDurations, MaximumQuantity, IsConsumable, IsEquippable) ==
  LET inventoryItemToAdd ==
        [FInventoryItem EXCEPT
           !.Name = Name,
           !.FlavorText = FlavorText,
           !.Thumbnail = Thumbnail,
           !.FullImage = FullImage,
           !.StatsBoostsAndDurations = StatsBoostsAndDurations,
           !.MaximumQuantity = MaximumQuantity,
           !.IsConsumable = IsConsumable,
           !.IsEquippable = IsEquippable]
  IN
  /\ call' = Call("AddInventoryItemType", Name, 0, inventoryItemToAdd)
  /\ IF Name \in Registered
     THEN /\ ret' = EDuplicateItemType
          /\ UNCHANGED Inventory
     ELSE /\ Inventory' = MapAdd(Inventory, Name, inventoryItemToAdd)
          /\ ret' = ESuccess
  /\ UNCHANGED <<PossibleStats, EverEquipped>>

\* AddInventoryItemType testing the name before the stats
AddInventoryItemType_NameFirst(Name, FlavorText, Thumbnail, FullImage, StatsBoostsAndDurations, MaximumQuantity, IsConsumable, IsEquippable) ==
  LET inventoryItemToAdd ==
        [FInventoryItem EXCEPT
           !.Name = Name,
           !.FlavorText = FlavorText,
           !.Thumbnail = Thumbnail,
           !.FullImage = FullImage,
           !.StatsBoostsAndDurations = StatsBoostsAndDurations,
           !.MaximumQuantity = MaximumQuantity,
           !.IsConsumable = IsConsumable,
           !.IsEquippable = IsEquippable]
  IN
  /\ call' = Call("AddInventoryItemType", Name, 0, inventoryItemToAdd)
  /\ IF Name \in Registered
     THEN /\ ret' = EDuplicateItemType
          /\ UNCHANGED Inventory
     ELSE IF \E k \in DOMAIN StatsBoostsAndDurations : k \notin PossibleStats
     THEN /\ ret' = EInvalidStatUsed
          /\ UNCHANGED Inventory
     ELSE /\ Inventory' = MapAdd(Inventory, Name, inventoryItemToAdd)
          /\ ret' = ESuccess
  /\ UNCHANGED <<PossibleStats, EverEquipped>>

\* AddInventoryItemType that adds before it tests Inventory.Contains(Name):
\* TMap::Add replaces the entry of a name already registered
AddInventoryItemType_AddsFirst(Name, FlavorText, Thumbnail, FullImage, StatsBoostsAndDurations, MaximumQuantity, IsConsumable, IsEquippable) ==
  LET inventoryItemToAdd ==
        [FInventoryItem EXCEPT
           !.Name = Name,
           !.FlavorText = FlavorText,
           !.Thumbnail = Thumbnail,
           !.FullImage = FullImage,
           !.StatsBoostsAndDurations = StatsBoostsAndDurations,
           !.MaximumQuantity = MaximumQuantity,
           !.IsConsumable = IsConsumable,
           !.IsEquippable = IsEquippable]
  IN
  /\ call' = Call("AddInventoryItemType", Name, 0, inventoryItemToAdd)
  /\ IF \E k \in DOMAIN StatsBoostsAndDurations : k \notin PossibleStats
     THEN /\ ret' = EInvalidStatUsed
          /\ UNCHANGED Inventory
     ELSE /\ Inventory' = MapAdd(Inventory, Name, inventoryItemToAdd)
          /\ ret' = IF Name \in Registered THEN EDuplicateItemType ELSE ESuccess
  /\ UNCHANGED <<PossibleStats, EverEquipped>>

AddInventoryItemType(Name, FlavorText, Thumbnail, FullImage, StatsBoostsAndDurations, MaximumQuantity, IsConsumable, IsEquippable) ==
  LET inventoryItemToAdd ==
        [FInventoryItem EXCEPT
           !.Name = Name,
           !.FlavorText = FlavorText,
           !.Thumbnail = Thumbnail,
           !.FullImage = FullImage,
           !.StatsBoostsAndDurations = StatsBoostsAndDurations,
           !.MaximumQuantity = MaximumQuantity,
           !.IsConsumable = IsConsumable,
           !.IsEquippable = IsEquippable]
  IN
  /\ call' = Call("AddInventoryItemType", Name, 0, inventoryItemToAdd)
  /\ IF \E k \in DOMAIN StatsBoostsAndDurations : k \notin PossibleStats
     THEN /\ ret' = EInvalidStatUsed
          /\ UNCHANGED Inventory
     ELSE IF Name \in Registered
     THEN /\ ret' = EDuplicateItemType
          /\ UNCHANGED Inventory
     ELSE /\ Inventory' = MapAdd(Inventory, Name, inventoryItemToAdd)
          /\ ret' = ESuccess
  /\ UNCHANGED <<PossibleStats, EverEquipped>>

\* AddItem that adds first and tests the new Quantity afterwards
AddItem_AddsFirst(ItemToAdd, Quantity) ==
  /\ call' = Call("AddItem", ItemToAdd, Quantity, NoItem)
  /\ IF ItemToAdd \notin Registered
     THEN /\ ret' = EInvalidItemType
          /\ UNCHANGED Inventory
     ELSE /\ InModelRange(Inventory[ItemToAdd].Quantity + Quantity)
          /\ Inventory' = [Inventory EXCEPT ![ItemToAdd].Quantity = @ + Quantity]
          /\ ret' = IF Inventory[ItemToAdd].Quantity + Quantity
                         > Inventory[ItemToAdd].MaximumQuantity
                    THEN EMaxQuantityExceeded ELSE ESuccess
  /\ UNCHANGED <<PossibleStats, EverEquipped>>

\* AddItem rejecting the sum that equals MaximumQuantity (>= for >)
AddItem_RejectsAtMax(ItemToAdd, Quantity) ==
  /\ call' = Call("AddItem", ItemToAdd, Quantity, NoItem)
  /\ IF ItemToAdd \notin Registered
     THEN /\ ret' = EInvalidItemType
          /\ UNCHANGED Inventory
     ELSE IF Inventory[ItemToAdd].Quantity + Quantity
               >= Inventory[ItemToAdd].MaximumQuantity
     THEN /\ ret' = EMaxQuantityExceeded
          /\ UNCHANGED Inventory
     ELSE /\ InModelRange(Inventory[ItemToAdd].Quantity + Quantity)
          /\ Inventory' = [Inventory EXCEPT ![ItemToAdd].Quantity = @ + Quantity]
          /\ ret' = ESuccess
  /\ UNCHANGED <<PossibleStats, EverEquipped>>

AddItem(ItemToAdd, Quantity) ==
  /\ call' = Call("AddItem", ItemToAdd, Quantity, NoItem)
  /\ IF ItemToAdd \notin Registered
     THEN /\ ret' = EInvalidItemType
          /\ UNCHANGED Inventory
     ELSE \E exceeds \in SumExceeds(Inventory[ItemToAdd].Quantity, Quantity,
                                    Inventory[ItemToAdd].MaximumQuantity) :
            IF exceeds
            THEN /\ ret' = EMaxQuantityExceeded
                 /\ UNCHANGED Inventory
            ELSE /\ InModelRange(WrapAdd(Inventory[ItemToAdd].Quantity, Quantity))
                 /\ Inventory' = [Inventory EXCEPT ![ItemToAdd].Quantity =
                                    WrapAdd(@, Quantity)]
                 /\ ret' = ESuccess
  /\ UNCHANGED <<PossibleStats, EverEquipped>>

\* ConsumeItem that unequips an item it has consumed down to 0
ConsumeItem_UnequipsAtZero(ItemToConsume, Quantity) ==
  /\ call' = Call("ConsumeItem", ItemToConsume, Quantity, NoItem)
  /\ IF ItemToConsume \notin Registered
     THEN /\ ret' = EInvalidItemType
          /\ UNCHANGED Inventory
     ELSE IF Inventory[ItemToConsume].Quantity = 0
     THEN /\ ret' = ENoItemsToConsume
          /\ UNCHANGED Inventory
     ELSE /\ IF Inventory[ItemToConsume].Quantity - Quantity <= 0
             THEN Inventory' = [Inventory EXCEPT ![ItemToConsume].Quantity = 0,
                                                 ![ItemToConsume].IsEquipped = FALSE]
             ELSE /\ InModelRange(Inventory[ItemToConsume].Quantity - Quantity)
                  /\ Inventory' = [Inventory EXCEPT ![ItemToConsume].Quantity =
                                     @ - Quantity]
          /\ ret' = ESuccess
  /\ UNCHANGED <<PossibleStats, EverEquipped>>

\* ConsumeItem without the test for Quantity == 0
ConsumeItem_NoEmptyTest(ItemToConsume, Quantity) ==
  /\ call' = Call("ConsumeItem", ItemToConsume, Quantity, NoItem)
  /\ IF ItemToConsume \notin Registered
     THEN /\ ret' = EInvalidItemType
          /\ UNCHANGED Inventory
     ELSE /\ IF Inventory[ItemToConsume].Quantity - Quantity <= 0
             THEN Inventory' = [Inventory EXCEPT ![ItemToConsume].Quantity = 0]
             ELSE /\ InModelRange(Inventory[ItemToConsume].Quantity - Quantity)
                  /\ Inventory' = [Inventory EXCEPT ![ItemToConsume].Quantity =
                                     @ - Quantity]
          /\ ret' = ESuccess
  /\ UNCHANGED <<PossibleStats, EverEquipped>>

\* ConsumeItem that always subtracts, without the clamp to 0
ConsumeItem_NoClamp(ItemToConsume, Quantity) ==
  /\ call' = Call("ConsumeItem", ItemToConsume, Quantity, NoItem)
  /\ IF ItemToConsume \notin Registered
     THEN /\ ret' = EInvalidItemType
          /\ UNCHANGED Inventory
     ELSE IF Inventory[ItemToConsume].Quantity = 0
     THEN /\ ret' = ENoItemsToConsume
          /\ UNCHANGED Inventory
     ELSE /\ InModelRange(Inventory[ItemToConsume].Quantity - Quantity)
          /\ Inventory' = [Inventory EXCEPT ![ItemToConsume].Quantity =
                             @ - Quantity]
          /\ ret' = ESuccess
  /\ UNCHANGED <<PossibleStats, EverEquipped>>

ConsumeItem(ItemToConsume, Quantity) ==
  /\ call' = Call("ConsumeItem", ItemToConsume, Quantity, NoItem)
  /\ IF ItemToConsume \notin Registered
     THEN /\ ret' = EInvalidItemType
          /\ UNCHANGED Inventory
     ELSE IF Inventory[ItemToConsume].Quantity = 0
     THEN /\ ret' = ENoItemsToConsume
          /\ UNCHANGED Inventory
     ELSE \E notPositive \in DiffNotPositive(Inventory[ItemToConsume].Quantity,
                                             Quantity) :
            /\ IF notPositive
               THEN Inventory' = [Inventory EXCEPT ![ItemToConsume].Quantity = 0]
               ELSE /\ InModelRange(WrapSub(Inventory[ItemToConsume].Quantity,
                                            Quantity))
                    /\ Inventory' = [Inventory EXCEPT ![ItemToConsume].Quantity =
                                       WrapSub(@, Quantity)]
            /\ ret' = ESuccess
  /\ UNCHANGED <<PossibleStats, EverEquipped>>

\* EquipItem with a single equipment slot: equipping one item unequips the
\* others
EquipItem_SingleSlot(ItemToEquip) ==
  /\ call' = Call("EquipItem", ItemToEquip, 0, NoItem)
  /\ IF ItemToEquip \notin Registered
     THEN /\ ret' = EInvalidItemType
          /\ UNCHANGED <<Inventory, EverEquipped>>
     ELSE IF ~Inventory[ItemToEquip].IsEquippable
     THEN /\ ret' = ENotEquippable
          /\ UNCHANGED <<Inventory, EverEquipped>>
     ELSE IF Inventory[ItemToEquip].IsEquipped
     THEN /\ ret' = EAlreadyEquipped
          /\ UNCHANGED <<Inventory, EverEquipped>>
     ELSE /\ Inventory' = [n \in Registered |->
                             [Inventory[n] EXCEPT !.IsEquipped = (n = ItemToEquip)]]
          /\ EverEquipped' = EverEquipped \cup {ItemToEquip}
          /\ ret' = ESuccess
  /\ UNCHANGED PossibleStats

\* EquipItem without the IsEquippable test
EquipItem_NoEquippableTest(ItemToEquip) ==
  /\ call' = Call("EquipItem", ItemToEquip, 0, NoItem)
  /\ IF ItemToEquip \notin Registered
     THEN /\ ret' = EInvalidItemType
          /\ UNCHANGED <<Inventory, EverEquipped>>
     ELSE IF Inventory[ItemToEquip].IsEquipped
     THEN /\ ret' = EAlreadyEquipped
          /\ UNCHANGED <<Inventory, EverEquipped>>
     ELSE /\ Inventory' = [Inventory EXCEPT ![ItemToEquip].IsEquipped = TRUE]
          /\ EverEquipped' = EverEquipped \cup {ItemToEquip}
          /\ ret' = ESuccess
  /\ UNCHANGED PossibleStats

\* EquipItem without the IsEquipped test
EquipItem_NoEquippedTest(ItemToEquip) ==
  /\ call' = Call("EquipItem", ItemToEquip, 0, NoItem)
  /\ IF ItemToEquip \notin Registered
     THEN /\ ret' = EInvalidItemType
          /\ UNCHANGED <<Inventory, EverEquipped>>
     ELSE IF ~Inventory[ItemToEquip].IsEquippable
     THEN /\ ret' = ENotEquippable
          /\ UNCHANGED <<Inventory, EverEquipped>>
     ELSE /\ Inventory' = [Inventory EXCEPT ![ItemToEquip].IsEquipped = TRUE]
          /\ EverEquipped' = EverEquipped \cup {ItemToEquip}
          /\ ret' = ESuccess
  /\ UNCHANGED PossibleStats

EquipItem(ItemToEquip) ==
  /\ call' = Call("EquipItem", ItemToEquip, 0, NoItem)
  /\ IF ItemToEquip \notin Registered
     THEN /\ ret' = EInvalidItemType
          /\ UNCHANGED <<Inventory, EverEquipped>>
     ELSE IF ~Inventory[ItemToEquip].IsEquippable
     THEN /\ ret' = ENotEquippable
          /\ UNCHANGED <<Inventory, EverEquipped>>
     ELSE IF Inventory[ItemToEquip].IsEquipped
     THEN /\ ret' = EAlreadyEquipped
          /\ UNCHANGED <<Inventory, EverEquipped>>
     ELSE /\ Inventory' = [Inventory EXCEPT ![ItemToEquip].IsEquipped = TRUE]
          /\ EverEquipped' = EverEquipped \cup {ItemToEquip}
          /\ ret' = ESuccess
  /\ UNCHANGED PossibleStats

\* UnequipItem that reports ESuccess without clearing IsEquipped
UnequipItem_KeepsEquipped(ItemToUnequip) ==
  /\ call' = Call("UnequipItem", ItemToUnequip, 0, NoItem)
  /\ IF ItemToUnequip \notin Registered
     THEN ret' = EInvalidItemType
     ELSE IF ~Inventory[ItemToUnequip].IsEquippable
     THEN ret' = ENotEquippable
     ELSE IF ~Inventory[ItemToUnequip].IsEquipped
     THEN ret' = ENotEquipped
     ELSE ret' = ESuccess
  /\ UNCHANGED <<Inventory, PossibleStats, EverEquipped>>

\* UnequipItem that also drops the item: Quantity is reset with IsEquipped
UnequipItem_ResetsQuantity(ItemToUnequip) ==
  /\ call' = Call("UnequipItem", ItemToUnequip, 0, NoItem)
  /\ IF ItemToUnequip \notin Registered
     THEN /\ ret' = EInvalidItemType
          /\ UNCHANGED Inventory
     ELSE IF ~Inventory[ItemToUnequip].IsEquippable
     THEN /\ ret' = ENotEquippable
          /\ UNCHANGED Inventory
     ELSE IF ~Inventory[ItemToUnequip].IsEquipped
     THEN /\ ret' = ENotEquipped
          /\ UNCHANGED Inventory
     ELSE /\ Inventory' = [Inventory EXCEPT ![ItemToUnequip].IsEquipped = FALSE,
                                            ![ItemToUnequip].Quantity = 0]
          /\ ret' = ESuccess
  /\ UNCHANGED <<PossibleStats, EverEquipped>>

\* UnequipItem without the IsEquipped test
UnequipItem_NoEquippedTest(ItemToUnequip) ==
  /\ call' = Call("UnequipItem", ItemToUnequip, 0, NoItem)
  /\ IF ItemToUnequip \notin Registered
     THEN /\ ret' = EInvalidItemType
          /\ UNCHANGED Inventory
     ELSE IF ~Inventory[ItemToUnequip].IsEquippable
     THEN /\ ret' = ENotEquippable
          /\ UNCHANGED Inventory
     ELSE /\ Inventory' = [Inventory EXCEPT ![ItemToUnequip].IsEquipped = FALSE]
          /\ ret' = ESuccess
  /\ UNCHANGED <<PossibleStats, EverEquipped>>

UnequipItem(ItemToUnequip) ==
  /\ call' = Call("UnequipItem", ItemToUnequip, 0, NoItem)
  /\ IF ItemToUnequip \notin Registered
     THEN /\ ret' = EInvalidItemType
          /\ UNCHANGED Inventory
     ELSE IF ~Inventory[ItemToUnequip].IsEquippable
     THEN /\ ret' = ENotEquippable
          /\ UNCHANGED Inventory
     ELSE IF ~Inventory[ItemToUnequip].IsEquipped
     THEN /\ ret' = ENotEquipped
          /\ UNCHANGED Inventory
     ELSE /\ Inventory' = [Inventory EXCEPT ![ItemToUnequip].IsEquipped = FALSE]
          /\ ret' = ESuccess
  /\ UNCHANGED <<PossibleStats, EverEquipped>>

\* GetEquippedItems: the items whose IsEquipped is set (the order in the
\* returned TArray is that of the TMap and is not modelled)
GetEquippedItems ==
  {Inventory[n] : n \in {m \in Registered : Inventory[m].IsEquipped}}

(* ---------------- the host's calls ------------------------------------- *)
DoAddPossibleStat == \E s \in StatNames : AddPossibleStat(s)

DoAddInventoryItemType ==
  \E n \in ItemNames, a \in ItemTypeArgs :
    AddInventoryItemType(n, a.FlavorText, a.Thumbnail, a.FullImage,
                         a.StatsBoostsAndDurations, a.MaximumQuantity,
                         a.IsConsumable, a.IsEquippable)

DoAddItem == \E n \in ItemNames, q \in QtyArgs : AddItem(n, q)

DoConsumeItem == \E n \in ItemNames, q \in QtyArgs : ConsumeItem(n, q)

DoEquipItem == \E n \in ItemNames : EquipItem(n)

DoUnequipItem == \E n \in ItemNames : UnequipItem(n)

Next ==
  \/ DoAddPossibleStat
  \/ DoAddInventoryItemType
  \/ DoAddItem
  \/ DoConsumeItem
  \/ DoEquipItem
  \/ DoUnequipItem

Spec == Init /\ [][Next]_vars

\* The same host, also calling AddItem with the largest int as Quantity
QtyArgsInt == QtyArgs \cup {INT_MAX}

DoAddItemInt == \E n \in ItemNames, q \in QtyArgsInt : AddItem(n, q)

NextInt ==
  \/ DoAddPossibleStat
  \/ DoAddInventoryItemType
  \/ DoAddItemInt
  \/ DoConsumeItem
  \/ DoEquipItem
  \/ DoUnequipItem

SpecInt == Init /\ [][NextInt]_vars

TypeOK ==
  /\ PossibleStats \subseteq StatNames
  /\ Registered \subseteq ItemNames
  /\ call.op \in {"", "AddPossibleStat", "AddInventoryItemType", "AddItem",
                  "ConsumeItem", "EquipItem", "UnequipItem"}
  /\ ret \in InventoryError
  /\ EverEquipped \subseteq Registered
  /\ \A n \in Registered : InModelRange(Inventory[n].Quantity)

(* ---------------- properties ------------------------------------------- *)
\* the item the last call names is registered
TargetRegistered == call.name \in Registered

Max0(x) == IF x > 0 THEN x ELSE 0

\* C1: in every reachable state every registered item has
\* 0 <= Quantity <= MaximumQuantity, the Quantity and MaximumQuantity
\* arguments of the calls ranging over negative, zero and positive integers.
C1_QuantityWithinBounds ==
  \A n \in Registered :
    /\ 0 <= Inventory[n].Quantity
    /\ Inventory[n].Quantity <= Inventory[n].MaximumQuantity

C3_ConsumeEmpty ==
  [][ (/\ call'.op = "ConsumeItem"
       /\ call'.name \in Registered
       /\ Inventory[call'.name].Quantity = 0) =>
        /\ ret' = ENoItemsToConsume
        /\ Inventory'[call'.name].Quantity = 0 ]_vars

\* C3 witness: a ConsumeItem with a non-zero argument found nothing to consume.
C3_Witness ==
  /\ call.op = "ConsumeItem" /\ TargetRegistered
  /\ ret = ENoItemsToConsume
  /\ call.Quantity # 0
  /\ Inventory[call.name].Quantity = 0

C5_NotConsumable ==
  [][ (/\ call'.op = "ConsumeItem"
       /\ call'.name \in Registered
       /\ ~Inventory[call'.name].IsConsumable) =>
        /\ ret' = ENotConsumable
        /\ Inventory'[call'.name].Quantity >= Inventory[call'.name].Quantity
    ]_vars

\* C6: every registered item with IsEquipped = true has IsEquippable = true.
C6_EquippedIsEquippable ==
  \A n \in Registered : Inventory[n].IsEquipped => Inventory[n].IsEquippable

\* C6 witness: an item is equipped while another, not equippable, item has
\* been refused.
C6_Witness ==
  /\ \E n \in Registered : Inventory[n].IsEquipped
  /\ call.op = "EquipItem" /\ ret = ENotEquippable

\* C7: EquipItem and UnequipItem, whatever they return and whatever name they
\* are given, leave the Quantity of every registered item as it was.
C7_EquipKeepsQuantity ==
  [][ call'.op \in {"EquipItem", "UnequipItem"} =>
        /\ DOMAIN Inventory' = DOMAIN Inventory
        /\ \A n \in Registered :
             Inventory'[n].Quantity = Inventory[n].Quantity ]_vars

\* C7 witness: an item holding a non-zero Quantity has just been unequipped
\* while another item holds a non-zero Quantity too.
C7_Witness ==
  /\ call.op = "UnequipItem" /\ TargetRegistered /\ ret = ESuccess
  /\ Inventory[call.name].Quantity # 0
  /\ \E n \in Registered \ {call.name} : Inventory[n].Quantity # 0

\* what EquipItem(X) is to return, in the order of precedence of the claim
EquipResult(X) ==
  IF X \notin Registered THEN EInvalidItemType
  ELSE IF ~Inventory[X].IsEquippable THEN ENotEquippable
  ELSE IF Inventory[X].IsEquipped THEN EAlreadyEquipped
  ELSE ESuccess

\* C8: EquipItem(X) returns EInvalidItemType if X is not registered, else
\* ENotEquippable if X is not equippable, else EAlreadyEquipped if X is
\* equipped, else ESuccess; IsEquipped of X becomes true in the ESuccess case
\* and nothing changes in the others.
C8_EquipPrecedence ==
  [][ call'.op = "EquipItem" =>
        /\ ret' = EquipResult(call'.name)
        /\ IF ret' = ESuccess
           THEN /\ ~Inventory[call'.name].IsEquipped
                /\ Inventory'[call'.name].IsEquipped
           ELSE Inventory' = Inventory ]_vars

\* C8 witness: a second EquipItem of an equipped item was answered
\* EAlreadyEquipped.
C8_Witness ==
  /\ call.op = "EquipItem" /\ TargetRegistered
  /\ ret = EAlreadyEquipped
  /\ Inventory[call.name].IsEquipped

\* C9 as claimed: UnequipItem(X) on any registered X never successfully
\* equipped returns ENotEquipped and leaves IsEquipped false; on an equipped X
\* it returns ESuccess and sets IsEquipped to false.
C9_UnequipAsClaimed ==
  [][ (call'.op = "UnequipItem" /\ call'.name \in Registered) =>
        LET X == call'.name
        IN /\ X \notin EverEquipped =>
                ret' = ENotEquipped /\ ~Inventory'[X].IsEquipped
           /\ Inventory[X].IsEquipped =>
                ret' = ESuccess /\ ~Inventory'[X].IsEquipped ]_vars

\* C9 amended: UnequipItem(X) on a registered X never successfully equipped
\* returns ENotEquipped if X is equippable and ENotEquippable if it is not,
\* and leaves IsEquipped false; on an equipped X it returns ESuccess and sets
\* IsEquipped to false.
C9_UnequipAmended ==
  [][ (call'.op = "UnequipItem" /\ call'.name \in Registered) =>
        LET X == call'.name
        IN /\ X \notin EverEquipped =>
                /\ ret' = IF Inventory[X].IsEquippable
                          THEN ENotEquipped ELSE ENotEquippable
                /\ ~Inventory'[X].IsEquipped
           /\ Inventory[X].IsEquipped =>
                ret' = ESuccess /\ ~Inventory'[X].IsEquipped ]_vars

\* C9 witness: UnequipItem of an equippable item that was never equipped was
\* answered ENotEquipped.
C9_Witness ==
  /\ call.op = "UnequipItem" /\ TargetRegistered
  /\ call.name \notin EverEquipped
  /\ Inventory[call.name].IsEquippable
  /\ ret = ENotEquipped
  /\ ~Inventory[call.name].IsEquipped

\* C10: AddPossibleStat(s) returns ESuccess and adds s when s is not in the
\* registry; when s is in it, it returns EDuplicateStat and the registry keeps
\* its members and its size.
C10_AddPossibleStat ==
  [][ call'.op = "AddPossibleStat" =>
        IF call'.name \notin PossibleStats
        THEN /\ ret' = ESuccess
             /\ PossibleStats' = PossibleStats \cup {call'.name}
             /\ Cardinality(PossibleStats') = Cardinality(PossibleStats) + 1
        ELSE /\ ret' = EDuplicateStat
             /\ PossibleStats' = PossibleStats
             /\ Cardinality(PossibleStats') = Cardinality(PossibleStats) ]_vars

\* C10 witness: a stat registered before was refused as a duplicate.
C10_Witness ==
  /\ call.op = "AddPossibleStat"
  /\ ret = EDuplicateStat
  /\ call.name \in PossibleStats

\* the last AddInventoryItemType names a stat that is not registered
\* (evaluated on a step: the arguments of the call made, the registry before)
UsesUnknownStat ==
  \E k \in DOMAIN call'.item.StatsBoostsAndDurations : k \notin PossibleStats

\* C11: AddInventoryItemType whose StatsBoostsAndDurations has a key that is
\* not in the stat registry returns EInvalidStatUsed and leaves the catalogue
\* unchanged, whether or not the name is already registered.
C11_InvalidStatUsed ==
  [][ (call'.op = "AddInventoryItemType" /\ UsesUnknownStat) =>
        /\ ret' = EInvalidStatUsed
        /\ Inventory' = Inventory ]_vars

\* C11 witness: an item type naming an unregistered stat was refused under a
\* name that is already registered.
C11_Witness ==
  /\ call.op = "AddInventoryItemType" /\ TargetRegistered
  /\ ret = EInvalidStatUsed
  /\ \E k \in DOMAIN call.item.StatsBoostsAndDurations : k \notin PossibleStats

\* C12: AddInventoryItemType with a registered name and only registered stats
\* returns EDuplicateItemType and leaves the existing entry as it was: static
\* fields, Quantity and IsEquipped.
C12_DuplicateItemType ==
  [][ (/\ call'.op = "AddInventoryItemType"
       /\ call'.name \in Registered
       /\ ~UsesUnknownStat) =>
        /\ ret' = EDuplicateItemType
        /\ Inventory'[call'.name] = Inventory[call'.name]
        /\ Inventory' = Inventory ]_vars

\* C12 witness: a second, different definition of a name was refused while
\* the first one holds a Quantity and is equipped.
C12_Witness ==
  /\ call.op = "AddInventoryItemType" /\ TargetRegistered
  /\ ret = EDuplicateItemType
  /\ call.item.FlavorText # Inventory[call.name].FlavorText
  /\ call.item.MaximumQuantity # Inventory[call.name].MaximumQuantity
  /\ Inventory[call.name].Quantity > 0
  /\ Inventory[call.name].IsEquipped

\* C13: every operation returns one of the enumerated outcomes, and whenever
\* the outcome is not ESuccess the stat registry and every field of every
\* item are as they were before the call.
C13_NoPartialWrite ==
  [][ /\ call'.op \in {"AddPossibleStat", "AddInventoryItemType", "AddItem",
                       "ConsumeItem", "EquipItem", "UnequipItem"}
      /\ ret' \in InventoryError
      /\ ret' # ESuccess =>
           /\ PossibleStats' = PossibleStats
           /\ Inventory' = Inventory ]_vars

\* C13 witness: a refused AddItem, with stats registered and the item named
\* holding a Quantity.
C13_Witness ==
  /\ call.op = "AddItem" /\ TargetRegistered
  /\ ret = EMaxQuantityExceeded
  /\ PossibleStats # {}
  /\ Inventory[call.name].Quantity > 0

\* AddItem(X, q) / ConsumeItem(X, q) can return r and leave Quantity k in X
AddItemYields(X, q, r, k) ==
  ENABLED (AddItem(X, q) /\ ret' = r /\ Inventory'[X].Quantity = k)

ConsumeItemYields(X, q, r, k) ==
  ENABLED (ConsumeItem(X, q) /\ ret' = r /\ Inventory'[X].Quantity = k)

\* C14: an item registered with a negative MaximumQuantity behaves as one
\* registered with MaximumQuantity 0: from equal Quantities, every AddItem and
\* ConsumeItem returns the same result and leaves the same Quantity in both
\* (so the same holds along every sequence of such calls).
C14_NegativeMaxAsZero ==
  \A X, Z \in Registered :
    (/\ Inventory[X].MaximumQuantity < 0
     /\ Inventory[Z].MaximumQuantity = 0
     /\ Inventory[X].Quantity = Inventory[Z].Quantity) =>
      \A q \in QtyArgs, r \in InventoryError, k \in (-1)..QtyCap :
        /\ AddItemYields(X, q, r, k) <=> AddItemYields(Z, q, r, k)
        /\ ConsumeItemYields(X, q, r, k) <=> ConsumeItemYields(Z, q, r, k)

\* the step is a successful call of operation o on item n
Succeeds(o, n) == call'.op = o /\ call'.name = n /\ ret' = ESuccess

\* C15: the successful EquipItem and UnequipItem calls on an item alternate,
\* starting with EquipItem: an item is registered unequipped, a successful
\* EquipItem takes it from unequipped to equipped, a successful UnequipItem
\* from equipped to unequipped, nothing else changes IsEquipped, and an
\* EquipItem of an equipped item returns EAlreadyEquipped and leaves it
\* equipped.
C15_EquipAlternates ==
  [][ \A n \in ItemNames :
        /\ (n \notin Registered /\ n \in DOMAIN Inventory') =>
             ~Inventory'[n].IsEquipped
        /\ n \in Registered =>
             /\ n \in DOMAIN Inventory'
             /\ Succeeds("EquipItem", n) =>
                  ~Inventory[n].IsEquipped /\ Inventory'[n].IsEquipped
             /\ Succeeds("UnequipItem", n) =>
                  Inventory[n].IsEquipped /\ ~Inventory'[n].IsEquipped
             /\ Inventory'[n].IsEquipped # Inventory[n].IsEquipped =>
                  Succeeds("EquipItem", n) \/ Succeeds("UnequipItem", n)
             /\ (/\ call'.op = "EquipItem" /\ call'.name = n
                 /\ Inventory[n].IsEquipped) =>
                  ret' = EAlreadyEquipped /\ Inventory'[n].IsEquipped ]_vars

\* C15 witness: an item equipped before has just been unequipped.
C15_Witness ==
  /\ call.op = "UnequipItem" /\ TargetRegistered /\ ret = ESuccess
  /\ call.name \in EverEquipped
  /\ ~Inventory[call.name].IsEquipped

\* the fields of an item that are set at registration
StaticFields(item) ==
  [ Name |-> item.Name, FlavorText |-> item.FlavorText,
    Thumbnail |-> item.Thumbnail, FullImage |-> item.FullImage,
    StatsBoostsAndDurations |-> item.StatsBoostsAndDurations,
    MaximumQuantity |-> item.MaximumQuantity,
    IsConsumable |-> item.IsConsumable, IsEquippable |-> item.IsEquippable ]

\* C16: no operation removes a registered item or changes its static fields,
\* and none removes a stat; AddItem and ConsumeItem change at most the
\* Quantity of the item named, EquipItem and UnequipItem at most its
\* IsEquipped, and no other item.
C16_Frame ==
  [][ /\ PossibleStats \subseteq PossibleStats'
      /\ \A n \in Registered :
           /\ n \in DOMAIN Inventory'
           /\ StaticFields(Inventory'[n]) = StaticFields(Inventory[n])
      /\ call'.op \in {"AddItem", "ConsumeItem"} =>
           /\ PossibleStats' = PossibleStats
           /\ DOMAIN Inventory' = Registered
           /\ \A n \in Registered :
                Inventory'[n] =
                  IF n = call'.name
                  THEN [Inventory[n] EXCEPT !.Quantity = Inventory'[n].Quantity]
                  ELSE Inventory[n]
      /\ call'.op \in {"EquipItem", "UnequipItem"} =>
           /\ PossibleStats' = PossibleStats
           /\ DOMAIN Inventory' = Registered
           /\ \A n \in Registered :
                Inventory'[n] =
                  IF n = call'.name
                  THEN [Inventory[n] EXCEPT !.IsEquipped = Inventory'[n].IsEquipped]
                  ELSE Inventory[n] ]_vars

\* C16 witness: an item has just been equipped while the other item is
\* equipped and holds a Quantity.
C16_Witness ==
  /\ call.op = "EquipItem" /\ TargetRegistered /\ ret = ESuccess
  /\ \E n \in Registered \ {call.name} :
       Inventory[n].IsEquipped /\ Inventory[n].Quantity > 0

\* the entry a successful AddInventoryItemType(name, a...) is to insert
NewEntry(name, a) ==
  [ Name |-> name, FlavorText |-> a.FlavorText, Thumbnail |-> a.Thumbnail,
    FullImage |-> a.FullImage,
    StatsBoostsAndDurations |-> a.StatsBoostsAndDurations,
    MaximumQuantity |-> a.MaximumQuantity, IsConsumable |-> a.IsConsumable,
    IsEquippable |-> a.IsEquippable, Quantity |-> 0, IsEquipped |-> FALSE ]

\* the step is AddInventoryItemType(name, a...) returning ESuccess
RegistersType(name, a) ==
  /\ ret' = ESuccess
  /\ call'.op = "AddInventoryItemType"
  /\ AddInventoryItemType(name, a.FlavorText, a.Thumbnail, a.FullImage,
                          a.StatsBoostsAndDurations, a.MaximumQuantity,
                          a.IsConsumable, a.IsEquippable)

\* C17: a successful AddInventoryItemType(name, ...) inserts exactly one new
\* entry, under key name, whose Name is name, whose static fields are the
\* arguments, whose Quantity is 0 and whose IsEquipped is false; and in every
\* reachable state the key of every entry equals the entry's Name.
C17_NewEntry ==
  /\ [](\A n \in Registered : Inventory[n].Name = n)
  /\ [][ \A name \in ItemNames, a \in ItemTypeArgs :
           RegistersType(name, a) =>
             /\ name \notin Registered
             /\ DOMAIN Inventory' = Registered \cup {name}
             /\ Inventory'[name] = NewEntry(name, a)
             /\ \A n \in Registered : Inventory'[n] = Inventory[n] ]_vars

\* C17 witness: a second item type has just been registered, next to one that
\* holds a Quantity.
C17_Witness ==
  /\ call.op = "AddInventoryItemType" /\ TargetRegistered /\ ret = ESuccess
  /\ Inventory[call.name].Name = call.name
  /\ Inventory[call.name].Quantity = 0
  /\ \E n \in Registered \ {call.name} : Inventory[n].Quantity > 0

\* C18: every stat name that is a key of the StatsBoostsAndDurations of a
\* registered item is in the stat registry.
C18_StatsRegistered ==
  \A n \in Registered :
    DOMAIN Inventory[n].StatsBoostsAndDurations \subseteq PossibleStats

\* C18 witness: an item type naming two stats has just been registered.
C18_Witness ==
  /\ call.op = "AddInventoryItemType" /\ TargetRegistered /\ ret = ESuccess
  /\ Cardinality(DOMAIN Inventory[call.name].StatsBoostsAndDurations) = 2
  /\ PossibleStats = StatNames

\* the unbounded sum a + b exceeds m, for a, b, m in the range of int
TrueSumExceeds(a, b, m) == IF AddOverflows(a, b) THEN b > 0 ELSE a + b > m

\* C19: with Quantity, MaximumQuantity and the argument 32-bit signed, AddItem
\* returns EMaxQuantityExceeded and leaves the Quantity unchanged for every
\* argument q whose unbounded sum current + q exceeds MaximumQuantity, also
\* where the machine addition wraps.
C19_AddItemNoWrap ==
  [][ (/\ call'.op = "AddItem"
       /\ call'.name \in Registered
       /\ TrueSumExceeds(Inventory[call'.name].Quantity, call'.Quantity,
                         Inventory[call'.name].MaximumQuantity)) =>
        /\ ret' = EMaxQuantityExceeded
        /\ Inventory'[call'.name].Quantity = Inventory[call'.name].Quantity
    ]_vars

\* EquipItem(X) / UnequipItem(X) can return r and leave IsEquipped = b in X
EquipItemYields(X, r, b) ==
  ENABLED (EquipItem(X) /\ ret' = r /\ Inventory'[X].IsEquipped = b)

UnequipItemYields(X, r, b) ==
  ENABLED (UnequipItem(X) /\ ret' = r /\ Inventory'[X].IsEquipped = b)

\* two items that differ at most in fields other than the equip flags
SameEquipState(X, Z) ==
  /\ Inventory[X].IsEquippable = Inventory[Z].IsEquippable
  /\ Inventory[X].IsEquipped = Inventory[Z].IsEquipped

\* C20: the equip state and the Quantity of an item are independent.
\* EquipItem and UnequipItem answer and act alike on items with the same
\* IsEquippable and IsEquipped whatever their Quantity, and an equippable,
\* unequipped item can be equipped whatever its Quantity; AddItem and
\* ConsumeItem never change IsEquipped; and GetEquippedItems returns every
\* item whose IsEquipped is set, whatever its Quantity.
C20_EquipIndependentOfQuantity ==
  /\ [](\A X, Z \in Registered :
          SameEquipState(X, Z) =>
            \A r \in InventoryError, b \in BOOLEAN :
              /\ EquipItemYields(X, r, b) <=> EquipItemYields(Z, r, b)
              /\ UnequipItemYields(X, r, b) <=> UnequipItemYields(Z, r, b))
  /\ [](\A X \in Registered :
          /\ (Inventory[X].IsEquippable /\ ~Inventory[X].IsEquipped) =>
               EquipItemYields(X, ESuccess, TRUE)
          /\ Inventory[X].IsEquipped <=> Inventory[X] \in GetEquippedItems)
  /\ [][ call'.op \in {"AddItem", "ConsumeItem"} =>
           \A n \in Registered :
             /\ n \in DOMAIN Inventory'
             /\ Inventory'[n].IsEquipped = Inventory[n].IsEquipped ]_vars

\* C20 witness: an equipped item has just been consumed down to 0; it is
\* still equipped and returned by GetEquippedItems.
C20_Witness ==
  /\ call.op = "ConsumeItem" /\ TargetRegistered /\ ret = ESuccess
  /\ Inventory[call.name].Quantity = 0
  /\ Inventory[call.name].IsEquipped
  /\ Inventory[call.name] \in GetEquippedItems

====
